---- MODULE Spec2Model ----
(***************************************************************************)
(* The register-machine evaluator of package interpreter                  *)
(* (exprInterpreter / exprInterpretable): Eval steps through a Program's   *)
(* instructions, reads and writes the EvalState by expression id and keeps *)
(* a stack of Activations.                                                 *)
(*                                                                         *)
(* Strings are sequences of one-character strings, so that the dotted-name *)
(* reconstruction of resolveUnknown is real concatenation.  A ref.Value is *)
(* a record tagged by k; Go's nil is the record Nil.                       *)
(***************************************************************************)
EXTENDS Integers, Sequences, FiniteSets, TLC

VARIABLES
    interpreter,     \* exprInterpreter: packager and typeProvider (the dispatcher is fixed)
    program,         \* program[it]: the instruction sequence of Interpretable it
    state,           \* state[it]: its MutableEvalState, expression id -> value or Nil
    pc,              \* pc[it]: "idle" | "running" | "done" | "panic"
    cursor,          \* cursor[it]: the stepper's position (index of the next instruction)
    activation,      \* activation[it]: the Activation handed to the running Eval call
    currActivation,  \* currActivation[it]: the frame stack, caller's frame first
    resultId,        \* resultId[it]: id of the last instruction stepped over
    result,          \* result[it]: the value Eval returned (Nil before it returns)
    evals,           \* evals[it]: number of Eval calls begun on Interpretable it
    last             \* last[it]: the last step taken: instruction, state and frames before it

vars == <<interpreter, program, state, pc, cursor, activation, currActivation,
          resultId, result, evals, last>>

(***************************************************************************)
(* Bounds of the model.                                                    *)
(***************************************************************************)
MaxArgs == 2      \* longest argument / element list of a Call or CreateList
MaxChain == 2     \* most Selects stacked on one Ident

Its == {1, 2}

(***************************************************************************)
(* Values.                                                                 *)
(***************************************************************************)
Nil == [k |-> "nil"]
IntV(n) == [k |-> "int", n |-> n]
StrV(s) == [k |-> "string", s |-> s]
ErrV(m) == [k |-> "error", msg |-> m]
UnkV(ids) == [k |-> "unknown", ids |-> ids]
ListV(elems) == [k |-> "list", elems |-> elems]
MapV(entries) == [k |-> "map", entries |-> entries]
ObjV(name, fields) == [k |-> "object", name |-> name, fields |-> fields]

\* ref.Value.Type(); types.IsError and types.IsUnknown take a value or its type
TypeOf(v) == [k |-> "type", name |-> v.k]
IsError(v) == IF v.k = "type" THEN v.name = "error" ELSE v.k = "error"
IsUnknown(v) == IF v.k = "type" THEN v.name = "unknown" ELSE v.k = "unknown"
HasIndexerTrait(v) == v.k \in {"map", "list", "object"}

Dot == <<".">>
X == <<"x">>
Y == <<"y">>
Z == <<"z">>
A == <<"a">>
B == <<"b">>
C == <<"c">>
Pkg == <<"p", "k", "g">>
EmptyFn == [e \in {} |-> Nil]
Put(f, key, v) == [e \in DOMAIN f \cup {key} |-> IF e = key THEN v ELSE f[e]]
Max(S) == CHOOSE m \in S : \A e \in S : e <= m
Min(S) == CHOOSE m \in S : \A e \in S : m <= e
SeqsUpTo(S, n) == UNION {[1..len -> S] : len \in 0..n}
PartialFns(D, R) == UNION {[dom -> R] : dom \in SUBSET D}
\* The orders in which a Go range statement may visit the keys of a map.
RangeOrders(S) ==
    {o \in [1..Cardinality(S) -> S] : \A i, j \in DOMAIN o : i # j => o[i] # o[j]}

(***************************************************************************)
(* Instructions.                                                           *)
(***************************************************************************)
NoInst == [op |-> "none"]
IdentExpr(id, name) == [op |-> "Ident", Id |-> id, Name |-> name]
SelectExpr(id, operand, field) ==
    [op |-> "Select", Id |-> id, Operand |-> operand, Field |-> field]
CallExpr(id, fn, args, strict) ==
    [op |-> "Call", Id |-> id, Function |-> fn, Args |-> args, Strict |-> strict]
CreateListExpr(id, elements) == [op |-> "CreateList", Id |-> id, Elements |-> elements]
CreateMapExpr(id, keyValues) == [op |-> "CreateMap", Id |-> id, KeyValues |-> keyValues]
CreateObjectExpr(id, name, fieldValues) ==
    [op |-> "CreateObject", Id |-> id, Name |-> name, FieldValues |-> fieldValues]
MovInst(id, toExprId) == [op |-> "Mov", Id |-> id, ToExprId |-> toExprId]
JumpInst(id, count, onCondition) ==
    [op |-> "Jump", Id |-> id, Count |-> count, OnCondition |-> onCondition]
PushScopeInst(id, declarations) ==
    [op |-> "PushScope", Id |-> id, Declarations |-> declarations]
PopScopeInst(id) == [op |-> "PopScope", Id |-> id]

(***************************************************************************)
(* Program: MaxInstructionId, GetInstruction.                              *)
(***************************************************************************)
MaxInstructionId(prog) ==
    IF Len(prog) = 0 THEN 0 ELSE Max({prog[j].Id : j \in 1..Len(prog)})
GetInstruction(prog, id) ==
    LET at == {j \in 1..Len(prog) : prog[j].Id = id}
    IN  IF at = {} THEN NoInst ELSE prog[Min(at)]

(***************************************************************************)
(* EvalState: a dense store of MaxInstructionId + 1 slots, Nil when unset.  *)
(***************************************************************************)
NewEvalState(exprCount) == [id \in 0..(exprCount - 1) |-> Nil]
StateFound(st, id) == id \in DOMAIN st /\ st[id] # Nil
SetValue(st, id, v) == [st EXCEPT ![id] = v]
OnlyValue(st) ==
    LET set == {id \in DOMAIN st : st[id] # Nil}
    IN  IF Cardinality(set) = 1 THEN st[CHOOSE id \in set : TRUE] ELSE Nil

\* exprInterpretable.value and exprInterpretable.setValue
value(st, id) == IF StateFound(st, id) THEN st[id] ELSE UnkV(<<id>>)
setValue(st, id, v) == SetValue(st, id, v)

(***************************************************************************)
(* Activation.  A frame holds bindings (name -> value or lazy thunk) and   *)
(* references (expression id -> value).  NewHierarchicalActivation puts a  *)
(* child frame on top of its parent; lookups go child first.               *)
(***************************************************************************)
Bound(v) == [lazy |-> FALSE, val |-> v]
\* func() interface{} { return i.value(declId) }
Thunk(declId) == [lazy |-> TRUE, declId |-> declId]
NewActivation(bindings) == [bindings |-> bindings, references |-> EmptyFn]
NewHierarchicalActivation(parent, child) == Append(parent, child)
ResolveName(act, name, st) ==
    LET hits == {j \in 1..Len(act) : name \in DOMAIN act[j].bindings}
    IN  IF hits = {} THEN [found |-> FALSE, val |-> Nil]
        ELSE LET b == act[Max(hits)].bindings[name]
             IN  [found |-> TRUE,
                  val |-> IF b.lazy THEN value(st, b.declId) ELSE b.val]
ResolveReference(act, id) ==
    LET hits == {j \in 1..Len(act) : id \in DOMAIN act[j].references}
    IN  IF hits = {} THEN [found |-> FALSE, val |-> Nil]
        ELSE [found |-> TRUE, val |-> act[Max(hits)].references[id]]

(***************************************************************************)
(* The Interpreter's collaborators: packager, typeProvider, dispatcher.    *)
(***************************************************************************)
\* packages.Packager.ResolveCandidateNames: most qualified spelling first.
ResolveCandidateNames(pkg, name) ==
    IF pkg = <<>> THEN <<name>> ELSE <<pkg \o Dot \o name, name>>
\* ref.TypeProvider.FindIdent
FindIdent(tp, identName) ==
    IF identName \in DOMAIN tp.idents
    THEN [found |-> TRUE, val |-> tp.idents[identName]]
    ELSE [found |-> FALSE, val |-> Nil]
\* ref.TypeProvider.FindType
FindType(tp, typeName) == typeName \in tp.types
\* ref.TypeProvider.NewValue
NewValue(tp, typeName, fields) ==
    IF typeName \in tp.types THEN ObjV(typeName, fields) ELSE ErrV("unknown type")
\* Dispatcher.Dispatch on a CallContext
Dispatch(ctx) ==
    IF ctx.call.Function = "+" /\ Len(ctx.args) = 2
       /\ ctx.args[1].k = "int" /\ ctx.args[2].k = "int"
       THEN IntV(ctx.args[1].n + ctx.args[2].n)
    ELSE IF ctx.call.Function = "fail" /\ Len(ctx.args) = 0
       THEN ErrV("fail")
    ELSE ErrV("no matching overload")
\* traits.Indexer.Get with a string index
IndexerGet(operand, field) ==
    IF operand.k = "map"
       THEN IF StrV(field) \in DOMAIN operand.entries
            THEN operand.entries[StrV(field)] ELSE ErrV("no such key")
    ELSE IF operand.k = "object"
       THEN IF field \in DOMAIN operand.fields
            THEN operand.fields[field] ELSE ErrV("no such field")
    ELSE ErrV("unsupported index type")

(***************************************************************************)
(* exprInterpretable: the eval functions, each from the state before to    *)
(* the state after.                                                        *)
(***************************************************************************)
\* evalIdent asking the typeProvider before the Activation.
evalIdent_ProviderFirst(st, idExpr, act, tp) ==
    LET scoped == ResolveName(act, idExpr.Name, st)
        ident == FindIdent(tp, idExpr.Name)
    IN  IF ident.found THEN setValue(st, idExpr.Id, ident.val)
        ELSE IF scoped.found THEN setValue(st, idExpr.Id, scoped.val)
        ELSE setValue(st, idExpr.Id, UnkV(<<idExpr.Id>>))

evalIdent(st, idExpr, act, tp) ==
    LET scoped == ResolveName(act, idExpr.Name, st)
        ident == FindIdent(tp, idExpr.Name)
    IN  IF scoped.found THEN setValue(st, idExpr.Id, scoped.val)
        ELSE IF ident.found THEN setValue(st, idExpr.Id, ident.val)
        ELSE setValue(st, idExpr.Id, UnkV(<<idExpr.Id>>))

\* The loop of resolveUnknown putting each segment behind the identifier
\* built so far instead of in front of it.
RECURSIVE reconstruct_Appending(_, _, _, _, _, _)
reconstruct_Appending(st, prog, unknown, idx, identifier, validIdent) ==
    IF idx > Len(unknown) THEN [identifier |-> identifier, validIdent |-> validIdent]
    ELSE LET arg == unknown[idx]
             inst == GetInstruction(prog, arg)
             argVal == value(st, arg)
         IN  IF inst.op = "Ident"
                THEN reconstruct_Appending(st, prog, unknown, idx + 1,
                                           identifier \o Dot \o inst.Name, validIdent)
             ELSE IF inst.op = "Select"
                THEN reconstruct_Appending(st, prog, unknown, idx + 1,
                                           identifier \o Dot \o inst.Field, validIdent)
             ELSE IF argVal.k = "string"
                THEN reconstruct_Appending(st, prog, unknown, idx + 1,
                                           identifier \o Dot \o argVal.s, validIdent)
             ELSE reconstruct_Appending(st, prog, unknown, idx + 1, identifier, FALSE)

\* The loop of resolveUnknown over the unknown's contributor ids: each
\* contributes a segment in front of the identifier built so far.  The break
\* in the default case leaves the switch, not the loop.
RECURSIVE reconstruct(_, _, _, _, _, _)
reconstruct(st, prog, unknown, idx, identifier, validIdent) ==
    IF idx > Len(unknown) THEN [identifier |-> identifier, validIdent |-> validIdent]
    ELSE LET arg == unknown[idx]
             inst == GetInstruction(prog, arg)
             argVal == value(st, arg)
         IN  IF inst.op = "Ident"
                THEN reconstruct(st, prog, unknown, idx + 1,
                                 inst.Name \o Dot \o identifier, validIdent)
             ELSE IF inst.op = "Select"
                THEN reconstruct(st, prog, unknown, idx + 1,
                                 inst.Field \o Dot \o identifier, validIdent)
             ELSE IF argVal.k = "string"
                THEN reconstruct(st, prog, unknown, idx + 1,
                                 argVal.s \o Dot \o identifier, validIdent)
             ELSE reconstruct(st, prog, unknown, idx + 1, identifier, FALSE)

\* The candidate loop asking the Activation for every candidate before it
\* asks the typeProvider for any.
RECURSIVE firstCandidate_ActivationOverAll(_, _, _, _, _)
firstCandidate_ActivationOverAll(st, act, tp, candidates, idx) ==
    LET bound == {j \in idx..Len(candidates) : ResolveName(act, candidates[j], st).found}
        known == {j \in idx..Len(candidates) : FindIdent(tp, candidates[j]).found}
    IN  IF bound # {} THEN ResolveName(act, candidates[Min(bound)], st).val
        ELSE IF known # {} THEN FindIdent(tp, candidates[Min(known)]).val
        ELSE Nil

\* The first candidate name the Activation or the typeProvider knows, or Nil.
RECURSIVE firstCandidate(_, _, _, _, _)
firstCandidate(st, act, tp, candidates, idx) ==
    IF idx > Len(candidates) THEN Nil
    ELSE LET scoped == ResolveName(act, candidates[idx], st)
             ident == FindIdent(tp, candidates[idx])
         IN  IF scoped.found THEN scoped.val
             ELSE IF ident.found THEN ident.val
             ELSE firstCandidate(st, act, tp, candidates, idx + 1)

\* resolveUnknown putting the Select's id behind the operand's contributors.
resolveUnknown_AppendSelf(st, unknown, selExpr, act, prog, itp) ==
    LET ref == ResolveReference(act, selExpr.Id)
        name == reconstruct(st, prog, unknown.ids, 1, selExpr.Field, TRUE)
        hit == firstCandidate(st, act, itp.typeProvider,
                   ResolveCandidateNames(itp.packager, name.identifier), 1)
    IN  IF ref.found THEN [st |-> setValue(st, selExpr.Id, ref.val), lookup |-> <<>>]
        ELSE IF ~name.validIdent THEN [st |-> st, lookup |-> <<>>]
        ELSE IF hit # Nil
             THEN [st |-> setValue(st, selExpr.Id, hit), lookup |-> name.identifier]
        ELSE [st |-> setValue(st, selExpr.Id, UnkV(unknown.ids \o <<selExpr.Id>>)),
              lookup |-> name.identifier]

\* resolveUnknown storing an Unknown of the Select's id alone.
resolveUnknown_DropOperand(st, unknown, selExpr, act, prog, itp) ==
    LET ref == ResolveReference(act, selExpr.Id)
        name == reconstruct(st, prog, unknown.ids, 1, selExpr.Field, TRUE)
        hit == firstCandidate(st, act, itp.typeProvider,
                   ResolveCandidateNames(itp.packager, name.identifier), 1)
    IN  IF ref.found THEN [st |-> setValue(st, selExpr.Id, ref.val), lookup |-> <<>>]
        ELSE IF ~name.validIdent THEN [st |-> st, lookup |-> <<>>]
        ELSE IF hit # Nil
             THEN [st |-> setValue(st, selExpr.Id, hit), lookup |-> name.identifier]
        ELSE [st |-> setValue(st, selExpr.Id, UnkV(<<selExpr.Id>>)),
              lookup |-> name.identifier]

\* resolveUnknown and evalSelect: the new state and the name handed to
\* pkg.ResolveCandidateNames (the empty string when it is not called).
resolveUnknown(st, unknown, selExpr, act, prog, itp) ==
    LET ref == ResolveReference(act, selExpr.Id)
        name == reconstruct(st, prog, unknown.ids, 1, selExpr.Field, TRUE)
        hit == firstCandidate(st, act, itp.typeProvider,
                   ResolveCandidateNames(itp.packager, name.identifier), 1)
    IN  IF ref.found THEN [st |-> setValue(st, selExpr.Id, ref.val), lookup |-> <<>>]
        ELSE IF ~name.validIdent THEN [st |-> st, lookup |-> <<>>]
        ELSE IF hit # Nil
             THEN [st |-> setValue(st, selExpr.Id, hit), lookup |-> name.identifier]
        ELSE [st |-> setValue(st, selExpr.Id, UnkV(<<selExpr.Id>> \o unknown.ids)),
              lookup |-> name.identifier]

evalSelect(st, selExpr, act, prog, itp) ==
    LET operand == value(st, selExpr.Operand)
    IN  IF ~HasIndexerTrait(operand)
        THEN IF IsUnknown(operand)
             THEN resolveUnknown(st, operand, selExpr, act, prog, itp)
             ELSE [st |-> setValue(st, selExpr.Operand,
                                   ErrV("invalid operand in select")),
                   lookup |-> <<>>]
        ELSE [st |-> setValue(st, selExpr.Id, IndexerGet(operand, selExpr.Field)),
              lookup |-> <<>>]

\* evalCall reading every argument before it looks for an error or unknown,
\* so that the last offending argument is the one kept.
evalCall_LastOffender(st, callExpr, act) ==
    LET argVals == [idx \in 1..Len(callExpr.Args) |-> value(st, callExpr.Args[idx])]
        stop == {idx \in 1..Len(argVals) :
                    callExpr.Strict /\ (IsError(argVals[idx]) \/ IsUnknown(argVals[idx]))}
        ctx == [call |-> callExpr, activation |-> act, args |-> argVals]
    IN  IF stop # {}
        THEN [st |-> setValue(st, callExpr.Id, argVals[Max(stop)]), dispatched |-> FALSE]
        ELSE [st |-> setValue(st, callExpr.Id, Dispatch(ctx)), dispatched |-> TRUE]

\* evalCall: the new state and whether the dispatcher was invoked.
evalCall(st, callExpr, act) ==
    LET argVals == [idx \in 1..Len(callExpr.Args) |-> value(st, callExpr.Args[idx])]
        stop == {idx \in 1..Len(argVals) :
                    callExpr.Strict /\ (IsError(argVals[idx]) \/ IsUnknown(argVals[idx]))}
        ctx == [call |-> callExpr, activation |-> act, args |-> argVals]
    IN  IF stop # {}
        THEN [st |-> setValue(st, callExpr.Id, argVals[Min(stop)]), dispatched |-> FALSE]
        ELSE [st |-> setValue(st, callExpr.Id, Dispatch(ctx)), dispatched |-> TRUE]

\* evalCreateList stopping on an error only, so that an unknown element
\* ends up inside the list.
evalCreateList_ErrorOnly(st, listExpr) ==
    LET elements == [idx \in 1..Len(listExpr.Elements) |-> value(st, listExpr.Elements[idx])]
        stop == {idx \in 1..Len(elements) : IsError(TypeOf(elements[idx]))}
    IN  IF stop # {} THEN setValue(st, listExpr.Id, elements[Min(stop)])
        ELSE setValue(st, listExpr.Id, ListV(elements))

evalCreateList(st, listExpr) ==
    LET elements == [idx \in 1..Len(listExpr.Elements) |-> value(st, listExpr.Elements[idx])]
        stop == {idx \in 1..Len(elements) :
                    IsError(TypeOf(elements[idx])) \/ IsUnknown(TypeOf(elements[idx]))}
    IN  IF stop # {} THEN setValue(st, listExpr.Id, elements[Min(stop)])
        ELSE setValue(st, listExpr.Id, ListV(elements))

\* The loop of evalCreateMap over KeyValues, visited in the given range order.
RECURSIVE createMapLoop(_, _, _, _, _)
createMapLoop(st, mapExpr, order, idx, entries) ==
    IF idx > Len(order) THEN setValue(st, mapExpr.Id, MapV(entries))
    ELSE LET key == value(st, order[idx])
             val == value(st, mapExpr.KeyValues[order[idx]])
         IN  IF IsError(TypeOf(key)) \/ IsUnknown(TypeOf(key))
                THEN setValue(st, mapExpr.Id, key)
             ELSE IF IsError(TypeOf(val)) \/ IsUnknown(TypeOf(val))
                THEN setValue(st, mapExpr.Id, val)
             ELSE createMapLoop(st, mapExpr, order, idx + 1, Put(entries, key, val))
evalCreateMap(st, mapExpr, order) == createMapLoop(st, mapExpr, order, 1, EmptyFn)

newValue(itp, typeName, fields) ==
    LET candidates == ResolveCandidateNames(itp.packager, typeName)
        known == {idx \in 1..Len(candidates) : FindType(itp.typeProvider, candidates[idx])}
    IN  NewValue(itp.typeProvider,
                 IF known = {} THEN typeName ELSE candidates[Min(known)], fields)

\* The loop of evalCreateType over FieldValues, visited in the given range order.
RECURSIVE createTypeLoop(_, _, _, _, _, _)
createTypeLoop(st, objExpr, order, idx, fields, itp) ==
    IF idx > Len(order)
    THEN setValue(st, objExpr.Id, newValue(itp, objExpr.Name, fields))
    ELSE LET val == value(st, objExpr.FieldValues[order[idx]])
         IN  IF IsError(val) \/ IsUnknown(val) THEN setValue(st, objExpr.Id, val)
             ELSE createTypeLoop(st, objExpr, order, idx + 1,
                                 Put(fields, order[idx], val), itp)
evalCreateType(st, objExpr, order, itp) ==
    createTypeLoop(st, objExpr, order, 1, EmptyFn, itp)

\* evalMov copying from the target to the instruction's own id.
evalMov_Reversed(st, movExpr) == setValue(st, movExpr.Id, value(st, movExpr.ToExprId))

evalMov(st, movExpr) == setValue(st, movExpr.ToExprId, value(st, movExpr.Id))

\* JumpInst.OnCondition, a predicate on the EvalState
OnCondition(cond, st) ==
    IF cond.kind = "always" THEN TRUE
    ELSE IF cond.kind = "never" THEN FALSE
    ELSE IF cond.kind = "isUnknown" THEN IsUnknown(value(st, cond.slot))
    ELSE IsError(value(st, cond.slot))
\* progStepper.JumpCount: the cursor has already moved past the Jump.
JumpTarget(cur, count) == cur + count - 1
JumpCount(prog, cur, count) ==
    JumpTarget(cur, count) >= 1 /\ JumpTarget(cur, count) <= Len(prog)

\* PushScope putting the declarations into the current frame instead of into
\* a child of it.
pushScope_IntoParent(act, scopeDecls, order) ==
    [act EXCEPT ![Len(act)].bindings =
        [key \in DOMAIN scopeDecls \cup DOMAIN @ |->
            IF key \in DOMAIN scopeDecls
            THEN Thunk(scopeDecls[order[Len(order)]]) ELSE @[key]]]

\* The child Activation of a PushScopeInst.  The range variable declId is one
\* variable shared by every closure of the loop, so each thunk reads the id
\* of the declaration the range visited last.
pushScope(act, scopeDecls, order) ==
    NewHierarchicalActivation(act,
        NewActivation([key \in DOMAIN scopeDecls |->
                          Thunk(scopeDecls[order[Len(order)]])]))

(***************************************************************************)
(* Inputs: the Interpreters, the caller's Activations and the Programs.    *)
(***************************************************************************)
T == <<"T">>
P == <<"p">>
Q == <<"q">>
ABC == A \o Dot \o B \o Dot \o C
YZ == Y \o Dot \o Z
Interpreters ==
    {[packager |-> pkg,
      typeProvider |-> [idents |-> idents, types |-> {Pkg \o Dot \o T}]] :
        pkg \in {<<>>, Pkg},
        idents \in {EmptyFn, (X :> IntV(9)) @@ (ABC :> IntV(7)),
                    (Pkg \o Dot \o ABC) :> IntV(4)}}

Frame(bindings, references) == [bindings |-> bindings, references |-> references]
Activations ==
    {Frame(EmptyFn, EmptyFn),
     Frame(X :> Bound(IntV(3)), EmptyFn),
     Frame((X :> Bound(MapV(StrV(Z) :> IntV(5)))) @@ (Y :> Bound(StrV(A))), EmptyFn),
     Frame((X :> Bound(IntV(3))) @@ (ABC :> Bound(IntV(6))), EmptyFn),
     Frame(YZ :> Bound(IntV(8)), EmptyFn),
     Frame(EmptyFn, 2 :> IntV(2)),
     Frame(EmptyFn, 3 :> IntV(1))}

\* Instructions that put a value, an error or an unknown at id.
Producers(id) ==
    {IdentExpr(id, X), IdentExpr(id, Y), CallExpr(id, "fail", <<>>, TRUE)}
\* Operand ids: the two producers' ids and 0, an id no instruction has.
Operands == 0..2
Consumers(id) ==
    {CallExpr(id, fn, args, strict) :
        fn \in {"+", "nop"}, args \in SeqsUpTo(Operands, MaxArgs), strict \in BOOLEAN}
    \cup {CreateListExpr(id, elements) : elements \in SeqsUpTo(Operands, MaxArgs)}
    \cup {CreateMapExpr(id, kv) : kv \in PartialFns(1..2, Operands)}
    \cup {CreateObjectExpr(id, T, fv) : fv \in PartialFns({P, Q}, Operands)}
    \cup {SelectExpr(id, operand, field) : operand \in Operands, field \in {Z, C}}
    \cup {MovInst(mv[1], mv[2]) : mv \in {m \in (1..2) \X Operands : m[1] # m[2]}}
ConsumerPrograms ==
    {<<p1, p2, c>> : p1 \in Producers(1), p2 \in Producers(2), c \in Consumers(3)}

\* Ident, Select, Select, ...: the instructions of a.b.c
RECURSIVE Chains(_)
Chains(n) ==
    IF n = 0 THEN {<<IdentExpr(1, name)>> : name \in {A, X, Y}}
    ELSE {Append(ch, SelectExpr(n + 1, n, field)) :
             ch \in Chains(n - 1), field \in {B, C, Z}}
ChainPrograms == UNION {Chains(n) : n \in 0..MaxChain}

\* Scopes and jumps around producers.
ControlPrograms ==
    {<<p1, p2, PushScopeInst(3, decls), IdentExpr(4, name), PopScopeInst(5),
       IdentExpr(6, name)>> :
        p1 \in Producers(1), p2 \in Producers(2),
        decls \in PartialFns({X, Y}, 1..2), name \in {X, Y}}
    \cup {<<p1, JumpInst(2, count, cond), p3, MovInst(3, 1)>> :
            p1 \in Producers(1), p3 \in Producers(3), count \in 0..4,
            cond \in {[kind |-> "always"], [kind |-> "never"],
                      [kind |-> "isError", slot |-> 1]}}
    \cup {<<p, MovInst(2, 1), q>> :
            p \in Producers(2), q \in Producers(1) \cup Producers(2)}
    \cup {<<PopScopeInst(1)>>, <<PopScopeInst(1), IdentExpr(2, X)>>, <<>>}

\* A Select of a Call's slot that a Jump may have skipped.
SkippedOperandPrograms ==
    {<<IdentExpr(1, name), JumpInst(2, 2, cond), CallExpr(3, "fail", <<>>, TRUE),
       SelectExpr(4, 3, Z)>> :
        name \in {X, Y},
        cond \in {[kind |-> "always"], [kind |-> "isUnknown", slot |-> 1]}}

\* A scope whose declarations are written after the PushScope, and two
\* scopes nested.
ScopePrograms ==
    {<<PushScopeInst(1, decls), p2, p3, IdentExpr(4, name), PopScopeInst(5)>> :
        decls \in {(X :> 2) @@ (Y :> 3), (X :> 3) @@ (Y :> 2)},
        p2 \in {IdentExpr(2, A), CallExpr(2, "fail", <<>>, TRUE)},
        p3 \in {CallExpr(3, "nop", <<>>, TRUE)},
        name \in {X, Y}}
    \cup {<<IdentExpr(1, X), PushScopeInst(2, X :> 1), PushScopeInst(3, Y :> 1),
            IdentExpr(4, name), PopScopeInst(5), IdentExpr(6, name), PopScopeInst(7),
            IdentExpr(8, name)>> : name \in {X, Y}}

\* The programs of y.z and of a.b.c
C5Program == <<IdentExpr(1, Y), SelectExpr(2, 1, Z)>>
ABCProgram == <<IdentExpr(1, A), SelectExpr(2, 1, B), SelectExpr(3, 2, C)>>

\* Aggregates over two different errors.
AggregatePrograms ==
    {<<CallExpr(1, "fail", <<>>, FALSE), CallExpr(2, "nop", <<>>, FALSE), c>> :
        c \in {CreateMapExpr(3, kv) : kv \in [1..2 -> 1..2]}
              \cup {CreateObjectExpr(3, T, fv) : fv \in [{P, Q} -> 1..2]}
              \cup {CreateListExpr(3, <<1, 2>>)}}

Programs ==
    ConsumerPrograms \cup ChainPrograms \cup ControlPrograms \cup AggregatePrograms
    \cup SkippedOperandPrograms \cup ScopePrograms

\* The programs two Interpretables are built from side by side.
PairPrograms ==
    AggregatePrograms
    \cup {prog \in ControlPrograms :
            /\ Len(prog) > 0
            /\ prog[1] = IdentExpr(1, X)
            /\ (Len(prog) = 6 => prog[2] = IdentExpr(2, Y)
                                  /\ DOMAIN prog[3].Declarations = {X, Y})
            /\ (Len(prog) = 4 => prog[3] = IdentExpr(3, Y) /\ prog[2].Count \in 1..2)
            /\ (Len(prog) = 3 => prog[3] = IdentExpr(2, Y))}
    \cup {C5Program, ABCProgram}

\* Programs of every instruction kind in which each range over a map has at
\* most one entry to visit and each Jump goes forward.
JumpProgram ==
    <<IdentExpr(1, X), JumpInst(2, 2, [kind |-> "isUnknown", slot |-> 1]),
      IdentExpr(3, Y), MovInst(3, 1)>>
CreateProgram ==
    <<IdentExpr(1, X), CreateListExpr(2, <<1>>), CreateMapExpr(3, 1 :> 2),
      CreateObjectExpr(4, Pkg \o Dot \o T, P :> 1)>>
ScopeProgram ==
    <<IdentExpr(1, X), PushScopeInst(2, Y :> 1), IdentExpr(3, Y), PopScopeInst(4),
      IdentExpr(5, Y)>>
CallProgram ==
    <<IdentExpr(1, X), SelectExpr(2, 1, Z), CallExpr(3, "+", <<2, 2>>, TRUE)>>
DuoPrograms == <<JumpProgram, CreateProgram, ScopeProgram, CallProgram>>
TwicePrograms ==
    {DuoPrograms[j] : j \in 1..Len(DuoPrograms)}
    \cup SkippedOperandPrograms \cup {C5Program, ABCProgram}

(***************************************************************************)
(* Init: an Interpreter and the Interpretable NewInterpretable returns for *)
(* a Program, with a fresh EvalState sized to the Program.                 *)
(***************************************************************************)
NoStep(st) ==
    [inst |-> NoInst, pre |-> st, act |-> <<>>, dispatched |-> FALSE, lookup |-> <<>>]
NewInterpretable(prog) == NewEvalState(MaxInstructionId(prog) + 1)

InitWith(progs, budget) ==
    /\ interpreter \in Interpreters
    /\ program \in progs
    /\ state = [it \in Its |-> NewInterpretable(program[it])]
    /\ pc = [it \in Its |-> "idle"]
    /\ cursor = [it \in Its |-> 1]
    /\ activation = [it \in Its |-> Frame(EmptyFn, EmptyFn)]
    /\ currActivation = [it \in Its |-> <<>>]
    /\ resultId = [it \in Its |-> 0]
    /\ result = [it \in Its |-> Nil]
    /\ evals = budget
    /\ last = [it \in Its |-> NoStep(state[it])]

\* One Interpretable, evaluated once.
Init == InitWith({[it \in Its |-> IF it = 1 THEN prog ELSE <<>>] : prog \in Programs},
                 [it \in Its |-> IF it = 1 THEN 1 ELSE 0])

\* Two Interpretables of one Interpreter built from the same Program, each
\* evaluated once.
InitPair == InitWith({[it \in Its |-> prog] : prog \in PairPrograms}, [it \in Its |-> 1])

\* One Interpretable, evaluated twice in a row.
InitTwice ==
    InitWith({[it \in Its |-> IF it = 1 THEN prog ELSE <<>>] : prog \in TwicePrograms},
             [it \in Its |-> IF it = 1 THEN 2 ELSE 0])

\* Two Interpretables of one Interpreter built from different Programs, each
\* evaluated once.
InitDuo ==
    InitWith({[it \in Its |-> DuoPrograms[pair[it]]] :
                 pair \in {pr \in [Its -> 1..Len(DuoPrograms)] : pr[1] < pr[2]}},
             [it \in Its |-> 1])

(***************************************************************************)
(* Eval: entry, one action per instruction kind, return.                   *)
(***************************************************************************)
EvalBegin(it) ==
    /\ pc[it] \in {"idle", "done"}
    /\ evals[it] > 0
    /\ \E act \in Activations :
          /\ activation' = [activation EXCEPT ![it] = act]
          /\ currActivation' = [currActivation EXCEPT ![it] = <<act>>]
    /\ pc' = [pc EXCEPT ![it] = "running"]
    /\ cursor' = [cursor EXCEPT ![it] = 1]
    /\ resultId' = [resultId EXCEPT ![it] = 0]
    /\ result' = [result EXCEPT ![it] = Nil]
    /\ evals' = [evals EXCEPT ![it] = @ - 1]
    /\ last' = [last EXCEPT ![it] = NoStep(state[it])]
    /\ UNCHANGED <<interpreter, program, state>>

\* stepper.Next() returned an instruction of the given kind.
Fetch(it, op) ==
    /\ pc[it] = "running"
    /\ cursor[it] <= Len(program[it])
    /\ program[it][cursor[it]].op = op
Inst(it) == program[it][cursor[it]]

\* The bookkeeping every step shares: resultId = step.GetId(), the cursor
\* moved by Next(), and the record of the step.
Stepped(it, dispatched, lookup) ==
    /\ resultId' = [resultId EXCEPT ![it] = Inst(it).Id]
    /\ last' = [last EXCEPT ![it] = [inst |-> Inst(it), pre |-> state[it],
                                     act |-> currActivation[it],
                                     dispatched |-> dispatched, lookup |-> lookup]]
    /\ UNCHANGED <<interpreter, program, activation, result, evals>>
\* setValue on an EvalState that every Interpretable of the Interpreter shares.
Store_Shared(it, st) == state' = [other \in Its |-> st]
Store(it, st) == state' = [state EXCEPT ![it] = st]
Advance(it) == cursor' = [cursor EXCEPT ![it] = @ + 1]

StepIdent(it) ==
    /\ Fetch(it, "Ident")
    /\ Store(it, evalIdent(state[it], Inst(it), currActivation[it],
                           interpreter.typeProvider))
    /\ Advance(it) /\ Stepped(it, FALSE, <<>>)
    /\ UNCHANGED <<pc, currActivation>>

StepSelect(it) ==
    /\ Fetch(it, "Select")
    /\ LET r == evalSelect(state[it], Inst(it), currActivation[it], program[it],
                           interpreter)
       IN  Store(it, r.st) /\ Stepped(it, FALSE, r.lookup)
    /\ Advance(it)
    /\ UNCHANGED <<pc, currActivation>>

StepCall(it) ==
    /\ Fetch(it, "Call")
    /\ LET r == evalCall(state[it], Inst(it), currActivation[it])
       IN  Store(it, r.st) /\ Stepped(it, r.dispatched, <<>>)
    /\ Advance(it)
    /\ UNCHANGED <<pc, currActivation>>

StepCreateList(it) ==
    /\ Fetch(it, "CreateList")
    /\ Store(it, evalCreateList(state[it], Inst(it)))
    /\ Advance(it) /\ Stepped(it, FALSE, <<>>)
    /\ UNCHANGED <<pc, currActivation>>

StepCreateMap(it) ==
    /\ Fetch(it, "CreateMap")
    /\ \E order \in RangeOrders(DOMAIN Inst(it).KeyValues) :
          Store(it, evalCreateMap(state[it], Inst(it), order))
    /\ Advance(it) /\ Stepped(it, FALSE, <<>>)
    /\ UNCHANGED <<pc, currActivation>>

StepCreateObject(it) ==
    /\ Fetch(it, "CreateObject")
    /\ \E order \in RangeOrders(DOMAIN Inst(it).FieldValues) :
          Store(it, evalCreateType(state[it], Inst(it), order, interpreter))
    /\ Advance(it) /\ Stepped(it, FALSE, <<>>)
    /\ UNCHANGED <<pc, currActivation>>

StepMov(it) ==
    /\ Fetch(it, "Mov")
    /\ Store(it, evalMov(state[it], Inst(it)))
    /\ Advance(it) /\ Stepped(it, FALSE, <<>>)
    /\ UNCHANGED <<pc, currActivation>>

\* The Jump case going on to the next instruction when JumpCount refuses.
StepJump_Swallow(it) ==
    /\ Fetch(it, "Jump")
    /\ IF OnCondition(Inst(it).OnCondition, state[it])
          /\ JumpCount(program[it], cursor[it] + 1, Inst(it).Count)
       THEN cursor' = [cursor EXCEPT ![it] = JumpTarget(@ + 1, Inst(it).Count)]
       ELSE Advance(it)
    /\ Stepped(it, FALSE, <<>>)
    /\ UNCHANGED <<pc, state, currActivation>>

StepJump(it) ==
    /\ Fetch(it, "Jump")
    /\ IF ~OnCondition(Inst(it).OnCondition, state[it])
       THEN Advance(it) /\ UNCHANGED pc
       ELSE IF JumpCount(program[it], cursor[it] + 1, Inst(it).Count)
       THEN /\ cursor' = [cursor EXCEPT ![it] = JumpTarget(@ + 1, Inst(it).Count)]
            /\ UNCHANGED pc
       ELSE \* panic("jumped too far")
            /\ pc' = [pc EXCEPT ![it] = "panic"]
            /\ Advance(it)
    /\ Stepped(it, FALSE, <<>>)
    /\ UNCHANGED <<state, currActivation>>

StepPushScope(it) ==
    /\ Fetch(it, "PushScope")
    /\ \E order \in RangeOrders(DOMAIN Inst(it).Declarations) :
          currActivation' = [currActivation EXCEPT ![it] =
              IF Len(order) = 0
              THEN NewHierarchicalActivation(@, NewActivation(EmptyFn))
              ELSE pushScope(@, Inst(it).Declarations, order)]
    /\ Advance(it) /\ Stepped(it, FALSE, <<>>)
    /\ UNCHANGED <<pc, state>>

\* The PopScope case with a Parent() that hands back no Activation for the
\* caller's frame, and the loop going on.
StepPopScope_NoParent(it) ==
    /\ Fetch(it, "PopScope")
    /\ currActivation' = [currActivation EXCEPT ![it] = SubSeq(@, 1, Len(@) - 1)]
    /\ Advance(it) /\ Stepped(it, FALSE, <<>>)
    /\ UNCHANGED <<pc, state>>

\* currActivation.Parent(): the frame below, and a fault on the caller's frame.
StepPopScope(it) ==
    /\ Fetch(it, "PopScope")
    /\ IF Len(currActivation[it]) > 1
       THEN /\ currActivation' = [currActivation EXCEPT ![it] = SubSeq(@, 1, Len(@) - 1)]
            /\ UNCHANGED pc
       ELSE /\ pc' = [pc EXCEPT ![it] = "panic"]
            /\ UNCHANGED currActivation
    /\ Advance(it) /\ Stepped(it, FALSE, <<>>)
    /\ UNCHANGED state

\* The loop has ended: result := i.value(resultId), OnlyValue() if that is nil.
EvalResult(st, id) ==
    LET res == value(st, id) IN IF res = Nil THEN OnlyValue(st) ELSE res
EvalReturn(it) ==
    /\ pc[it] = "running"
    /\ cursor[it] > Len(program[it])
    /\ result' = [result EXCEPT ![it] = EvalResult(state[it], resultId[it])]
    /\ pc' = [pc EXCEPT ![it] = "done"]
    /\ UNCHANGED <<interpreter, program, state, cursor, activation, currActivation,
                   resultId, evals, last>>

Next ==
    \E it \in Its :
        \/ EvalBegin(it)
        \/ StepIdent(it)
        \/ StepSelect(it)
        \/ StepCall(it)
        \/ StepCreateList(it)
        \/ StepCreateMap(it)
        \/ StepCreateObject(it)
        \/ StepMov(it)
        \/ StepJump(it)
        \/ StepPushScope(it)
        \/ StepPopScope(it)
        \/ EvalReturn(it)

Spec == Init /\ [][Next]_vars
SpecPair == InitPair /\ [][Next]_vars
SpecTwice == InitTwice /\ [][Next]_vars
SpecDuo == InitDuo /\ [][Next]_vars

(***************************************************************************)
(* Eval as one function: the whole loop from instruction cur on, for a     *)
(* program whose ranges over maps have at most one entry to visit and      *)
(* whose Jumps go forward.                                                 *)
(***************************************************************************)
OneOrder(S) == CHOOSE order \in RangeOrders(S) : TRUE
Panicked(st) == [pc |-> "panic", result |-> Nil, state |-> st]
RECURSIVE EvalFrom(_, _, _, _, _, _)
EvalFrom(prog, itp, st, cur, act, rid) ==
    IF cur > Len(prog)
    THEN [pc |-> "done", result |-> EvalResult(st, rid), state |-> st]
    ELSE LET step == prog[cur]
             go(st2, cur2, act2) == EvalFrom(prog, itp, st2, cur2, act2, step.Id)
         IN  CASE step.op = "Ident" ->
                    go(evalIdent(st, step, act, itp.typeProvider), cur + 1, act)
               [] step.op = "Select" ->
                    go(evalSelect(st, step, act, prog, itp).st, cur + 1, act)
               [] step.op = "Call" ->
                    go(evalCall(st, step, act).st, cur + 1, act)
               [] step.op = "CreateList" ->
                    go(evalCreateList(st, step), cur + 1, act)
               [] step.op = "CreateMap" ->
                    go(evalCreateMap(st, step, OneOrder(DOMAIN step.KeyValues)),
                       cur + 1, act)
               [] step.op = "CreateObject" ->
                    go(evalCreateType(st, step, OneOrder(DOMAIN step.FieldValues), itp),
                       cur + 1, act)
               [] step.op = "Mov" ->
                    go(evalMov(st, step), cur + 1, act)
               [] step.op = "Jump" ->
                    IF ~OnCondition(step.OnCondition, st) THEN go(st, cur + 1, act)
                    ELSE IF JumpCount(prog, cur + 1, step.Count)
                    THEN go(st, JumpTarget(cur + 1, step.Count), act)
                    ELSE Panicked(st)
               [] step.op = "PushScope" ->
                    go(st, cur + 1,
                       IF DOMAIN step.Declarations = {}
                       THEN NewHierarchicalActivation(act, NewActivation(EmptyFn))
                       ELSE pushScope(act, step.Declarations,
                                      OneOrder(DOMAIN step.Declarations)))
               [] step.op = "PopScope" ->
                    IF Len(act) > 1 THEN go(st, cur + 1, SubSeq(act, 1, Len(act) - 1))
                    ELSE Panicked(st)
\* NewInterpretable(prog) followed by one Eval(activation).
EvalAlone(prog, itp, act) ==
    EvalFrom(prog, itp, NewInterpretable(prog), 1, <<act>>, 0)

(***************************************************************************)
(* Properties.  last[it] holds the instruction of the latest step of       *)
(* Interpretable it together with the EvalState and the frames before the  *)
(* step, and state[it] is the EvalState after it.                          *)
(***************************************************************************)
Offending(v) == v.k \in {"error", "unknown"}
\* The positions of a list of ids whose values, read before the step, are
\* an Error or an Unknown.
OffendingAt(pre, ids) == {idx \in 1..Len(ids) : Offending(value(pre, ids[idx]))}
\* The slots the latest step changed.
Changed(it) == {id \in DOMAIN state[it] : state[it][id] # last[it].pre[id]}
Stored(st) == {id \in DOMAIN st : st[id] # Nil}
ChainBinds(act, name) == \E j \in 1..Len(act) : name \in DOMAIN act[j].bindings
NameResolves(act, tp, name) == ChainBinds(act, name) \/ name \in DOMAIN tp.idents
CandidateResolves(act, itp, name) ==
    \E idx \in 1..Len(ResolveCandidateNames(itp.packager, name)) :
        NameResolves(act, itp.typeProvider, ResolveCandidateNames(itp.packager, name)[idx])

\* C1: a strict Call step with an Error or Unknown among its arguments stores
\* the value of the leftmost such argument at the Call's own id, and does not
\* invoke the dispatcher.
C1_StrictCallShortCircuit ==
    \A it \in Its :
        LET step == last[it]
        IN  (step.inst.op = "Call" /\ step.inst.Strict
             /\ OffendingAt(step.pre, step.inst.Args) # {})
            => /\ state[it][step.inst.Id] =
                      value(step.pre, step.inst.Args[Min(OffendingAt(step.pre, step.inst.Args))])
               /\ ~step.dispatched
\* A strict Call has stepped over two offending arguments of different value.
C1_Witness ==
    \E it \in Its :
        LET step == last[it]
        IN  /\ step.inst.op = "Call" /\ step.inst.Strict
            /\ Cardinality(OffendingAt(step.pre, step.inst.Args)) = 2
            /\ value(step.pre, step.inst.Args[1]) # value(step.pre, step.inst.Args[2])
            /\ state[it][step.inst.Id] = value(step.pre, step.inst.Args[1])

\* C2: a CreateList step with an Error or Unknown among its elements stores
\* the leftmost such element at its own id; it stores the list of all its
\* elements exactly when none of them is an Error or Unknown.
C2_CreateListStrict ==
    \A it \in Its :
        LET step == last[it]
            elems == [idx \in 1..Len(step.inst.Elements) |->
                         value(step.pre, step.inst.Elements[idx])]
        IN  step.inst.op = "CreateList"
            => /\ OffendingAt(step.pre, step.inst.Elements) # {}
                    => state[it][step.inst.Id] =
                         elems[Min(OffendingAt(step.pre, step.inst.Elements))]
               /\ OffendingAt(step.pre, step.inst.Elements) = {}
                    => state[it][step.inst.Id] = ListV(elems)
               /\ state[it][step.inst.Id].k = "list"
                    => OffendingAt(step.pre, step.inst.Elements) = {}
\* A CreateList has stepped over a sound first element and an offending
\* second one.
C2_Witness ==
    \E it \in Its :
        LET step == last[it]
        IN  /\ step.inst.op = "CreateList"
            /\ Len(step.inst.Elements) = 2
            /\ OffendingAt(step.pre, step.inst.Elements) = {2}
            /\ state[it][step.inst.Id] = value(step.pre, step.inst.Elements[2])

\* The components of a CreateMap or CreateObject in declaration order:
\* entries by ascending expression id, an entry's key before its value.
Ascending(S) == CHOOSE o \in RangeOrders(S) : \A i, j \in DOMAIN o : i < j => o[i] < o[j]
DeclaredComponents(inst) ==
    IF inst.op = "CreateMap"
    THEN LET keys == Ascending(DOMAIN inst.KeyValues)
         IN  [c \in 1..(2 * Len(keys)) |->
                 IF c % 2 = 1 THEN keys[(c + 1) \div 2]
                 ELSE inst.KeyValues[keys[c \div 2]]]
    ELSE Ascending({inst.FieldValues[f] : f \in DOMAIN inst.FieldValues})
\* C3: a CreateMap or CreateObject step with two or more Error/Unknown
\* components stores the component that comes first in declaration order,
\* whatever order the step visits them in.
C3_DeclaredOrderWins ==
    \A it \in Its :
        LET step == last[it]
        IN  step.inst.op \in {"CreateMap", "CreateObject"}
            => LET comps == DeclaredComponents(step.inst)
               IN  Cardinality(OffendingAt(step.pre, comps)) >= 2
                   => state[it][step.inst.Id] =
                         value(step.pre, comps[Min(OffendingAt(step.pre, comps))])

\* C4: an Ident step stores the Activation chain's binding of the name when
\* there is one (whether or not the typeProvider knows the name), else the
\* typeProvider's identifier, else Unknown of exactly the Ident's own id.
C4_IdentLookupOrder ==
    \A it \in Its :
        LET step == last[it]
            name == step.inst.Name
            tp == interpreter.typeProvider
        IN  step.inst.op = "Ident"
            => state[it][step.inst.Id] =
                  IF ChainBinds(step.act, name)
                  THEN ResolveName(step.act, name, step.pre).val
                  ELSE IF name \in DOMAIN tp.idents THEN tp.idents[name]
                  ELSE UnkV(<<step.inst.Id>>)
\* An Ident has stepped on a name that both the Activation and the
\* typeProvider define, with different values.
C4_Witness ==
    \E it \in Its :
        LET step == last[it]
        IN  /\ step.inst.op = "Ident"
            /\ ChainBinds(step.act, step.inst.Name)
            /\ step.inst.Name \in DOMAIN interpreter.typeProvider.idents
            /\ interpreter.typeProvider.idents[step.inst.Name] # state[it][step.inst.Id]

\* The program [Ident{1,"y"}, Select{2, operand 1, field "z"}] has returned,
\* and neither the Activation nor the typeProvider resolves y, a candidate of
\* y.z, or a reference for id 2.
C5Case(it) ==
    /\ program[it] = C5Program
    /\ pc[it] = "done"
    /\ ~NameResolves(<<activation[it]>>, interpreter.typeProvider, Y)
    /\ ~CandidateResolves(<<activation[it]>>, interpreter, YZ)
    /\ ~ResolveReference(<<activation[it]>>, 2).found
\* C5 as claimed: the program [Ident{1,"y"}, Select{2,1,"z"}], with nothing
\* resolving, returns Unknown with contributor ids 1 then 2.
C5_UnknownIdentThenSelect ==
    \A it \in Its : C5Case(it) => result[it] = UnkV(<<1, 2>>)
\* C5 amended: the program [Ident{1,"y"}, Select{2,1,"z"}], with nothing
\* resolving, returns Unknown with contributor ids 2 then 1.
C5_UnknownSelectThenIdent ==
    \A it \in Its : C5Case(it) => result[it] = UnkV(<<2, 1>>)
C5_Witness == \E it \in Its : C5Case(it) /\ IsUnknown(result[it])

\* Every contributor is an Ident, a Select or a string value.
ValidContributors(pre, prog, ids) ==
    \A idx \in 1..Len(ids) :
        \/ GetInstruction(prog, ids[idx]).op \in {"Ident", "Select"}
        \/ value(pre, ids[idx]).k = "string"
Descending(j) == [idx \in 1..j |-> j + 1 - idx]
\* C6: a Select step over an Unknown operand whose contributors reconstruct
\* a name, with no reference recorded for the Select and no candidate that
\* resolves, stores Unknown of the Select's id followed by the operand's
\* contributors; so down a chain Ident, Select, ..., Select whose slots all
\* end up Unknown, the slot of id j holds the ids j, j-1, ..., 1.
C6_UnknownProvenance ==
    \A it \in Its :
        LET step == last[it]
            operand == value(step.pre, step.inst.Operand)
        IN  /\ (/\ step.inst.op = "Select"
                /\ operand.k = "unknown"
                /\ ValidContributors(step.pre, program[it], operand.ids)
                /\ ~ResolveReference(step.act, step.inst.Id).found
                /\ ~CandidateResolves(step.act, interpreter,
                       reconstruct(step.pre, program[it], operand.ids, 1,
                                   step.inst.Field, TRUE).identifier))
               => state[it][step.inst.Id] = UnkV(<<step.inst.Id>> \o operand.ids)
            /\ (/\ program[it] \in ChainPrograms
                /\ pc[it] = "done"
                /\ \A j \in 1..Len(program[it]) : state[it][j].k = "unknown")
               => \A j \in 1..Len(program[it]) : state[it][j] = UnkV(Descending(j))
\* The chain a.b.c has run to its end and nothing resolved.
C6_Witness ==
    \E it \in Its :
        /\ Len(program[it]) = 3 /\ program[it] \in ChainPrograms
        /\ pc[it] = "done"
        /\ result[it] = UnkV(<<3, 2, 1>>)

\* The outer Select of Ident a, Select .b, Select .c has just stepped, over
\* an Unknown operand and with no reference recorded for it.
C7Case(it) ==
    /\ program[it] = ABCProgram
    /\ last[it].inst = ABCProgram[3]
    /\ value(last[it].pre, 2).k = "unknown"
    /\ ~ResolveReference(last[it].act, 3).found
\* C7: in the chain Ident a, Select .b, Select .c over an unbound a, the
\* outer Select hands exactly "a.b.c" to the packager; with the candidates
\* pkg.a.b.c and a.b.c, of which the typeProvider knows only a.b.c and the
\* Activation binds none, the outer Select stores that identifier's value.
C7_QualifiedNameFallback ==
    \A it \in Its :
        C7Case(it)
        => /\ last[it].lookup = ABC
           /\ (/\ ResolveCandidateNames(interpreter.packager, ABC)
                     = <<Pkg \o Dot \o ABC, ABC>>
               /\ ABC \in DOMAIN interpreter.typeProvider.idents
               /\ (Pkg \o Dot \o ABC) \notin DOMAIN interpreter.typeProvider.idents
               /\ ~ChainBinds(last[it].act, ABC)
               /\ ~ChainBinds(last[it].act, Pkg \o Dot \o ABC))
              => /\ state[it][3] = interpreter.typeProvider.idents[ABC]
                 /\ ~IsUnknown(state[it][3])
C7_Witness ==
    \E it \in Its :
        /\ C7Case(it)
        /\ interpreter.packager = Pkg
        /\ ~ChainBinds(last[it].act, ABC)
        /\ state[it][3] = IntV(7)

\* C8 as claimed: after a Mov step slot ToExprId holds what slot Id held and
\* slot Id is as it was; and a step that writes one slot leaves every other
\* slot as it was.
C8_MovCopiesSlot ==
    \A it \in Its :
        LET step == last[it]
        IN  /\ step.inst.op = "Mov"
               => /\ state[it][step.inst.ToExprId] = step.pre[step.inst.Id]
                  /\ state[it][step.inst.Id] = step.pre[step.inst.Id]
            /\ step.inst.op # "none" => Cardinality(Changed(it)) <= 1
\* C8 amended: after a Mov step slot ToExprId holds what a read of id Id gave
\* (Unknown of Id when the slot held nothing) and every other slot is as it
\* was; and a step that writes one slot leaves every other slot as it was.
C8_MovCopiesValueRead ==
    \A it \in Its :
        LET step == last[it]
        IN  /\ step.inst.op = "Mov"
               => /\ state[it][step.inst.ToExprId] =
                        (IF step.pre[step.inst.Id] # Nil THEN step.pre[step.inst.Id]
                         ELSE UnkV(<<step.inst.Id>>))
                  /\ Changed(it) \subseteq {step.inst.ToExprId}
            /\ step.inst.op # "none" => Cardinality(Changed(it)) <= 1
\* Mov{2 -> 1} copied 3, then slot 2 was written again and slot 1 still holds 3.
C8_Witness ==
    \E it \in Its :
        /\ Len(program[it]) = 3 /\ program[it][2] = MovInst(2, 1)
        /\ cursor[it] = 4
        /\ last[it].inst.Id = 2
        /\ last[it].pre[2] = IntV(3)
        /\ state[it][2] = ErrV("fail")
        /\ state[it][1] = IntV(3)

\* A Call, Select or Ident of the program depends on a missing binding: an
\* Ident no Activation, typeProvider or PushScope defines, or an operand id
\* no earlier instruction writes.
Declared(prog) ==
    UNION {DOMAIN prog[j].Declarations : j \in {i \in 1..Len(prog) : prog[i].op = "PushScope"}}
Written(prog, j) ==
    {prog[i].Id : i \in {h \in 1..(j - 1) : prog[h].op \in
        {"Ident", "Select", "Call", "CreateList", "CreateMap", "CreateObject"}}}
    \cup {prog[i].ToExprId : i \in {h \in 1..(j - 1) : prog[h].op = "Mov"}}
DependsOnMissing(prog, act, tp) ==
    \E j \in 1..Len(prog) :
        \/ /\ prog[j].op = "Ident"
           /\ prog[j].Name \notin DOMAIN act.bindings \cup DOMAIN tp.idents \cup Declared(prog)
        \/ /\ prog[j].op = "Select"
           /\ prog[j].Operand \notin Written(prog, j)
        \/ /\ prog[j].op = "Call"
           /\ \E idx \in 1..Len(prog[j].Args) : prog[j].Args[idx] \notin Written(prog, j)
NoUnknownStored(st) == \A id \in DOMAIN st : st[id].k # "unknown"
\* C9: two Eval runs of one program on fresh EvalStates, with the same
\* Activation, dispatcher and resolvers, where no Call, Select or Ident
\* depends on a missing binding, return the same result and leave the same
\* EvalState.
C9_EvalDeterministic ==
    (/\ pc[1] = "done" /\ pc[2] = "done"
     /\ program[1] = program[2]
     /\ activation[1] = activation[2]
     /\ ~DependsOnMissing(program[1], activation[1], interpreter.typeProvider)
     /\ NoUnknownStored(state[1]) /\ NoUnknownStored(state[2]))
    => result[1] = result[2] /\ state[1] = state[2]

\* C10: Eval returns the EvalState value at the id of the last instruction
\* stepped over if there is one; else the single stored value if exactly one
\* id holds a value; else an Unknown.
C10_FinalResult ==
    \A it \in Its :
        pc[it] = "done"
        => IF resultId[it] \in Stored(state[it])
           THEN result[it] = state[it][resultId[it]]
           ELSE IF Cardinality(Stored(state[it])) = 1
           THEN \A id \in Stored(state[it]) : result[it] = state[it][id]
           ELSE IsUnknown(result[it])

\* C11: a Select step over an operand that has no Indexer trait and is not
\* Unknown stores the error "invalid operand in select" at the Select's own
\* id and leaves the operand's slot as it was.
C11_SelectErrorAtOwnId ==
    \A it \in Its :
        LET step == last[it]
            operand == value(step.pre, step.inst.Operand)
        IN  (/\ step.inst.op = "Select"
             /\ ~HasIndexerTrait(operand)
             /\ ~IsUnknown(operand))
            => /\ state[it][step.inst.Id] = ErrV("invalid operand in select")
               /\ state[it][step.inst.Operand] = step.pre[step.inst.Operand]

\* The name reconstruction of the latest Select step is invalid: some
\* contributor of its Unknown operand is neither an Ident nor a Select and
\* holds no string.
InvalidReconstruction(it) ==
    LET step == last[it]
        operand == value(step.pre, step.inst.Operand)
    IN  /\ step.inst.op = "Select"
        /\ operand.k = "unknown"
        /\ ~ValidContributors(step.pre, program[it], operand.ids)
\* C12: a Select step over an Unknown operand whose name reconstruction is
\* invalid still stores a value at the Select's own id; so after any Select
\* step the slot of the Select's id holds a value.
C12_SelectAlwaysStores ==
    \A it \in Its :
        /\ InvalidReconstruction(it) => state[it][last[it].inst.Id] # Nil
        /\ last[it].inst.op = "Select" => state[it][last[it].inst.Id] # Nil

\* The position of an instruction in a program (instruction ids are unique).
PosOf(prog, inst) == CHOOSE j \in 1..Len(prog) : prog[j] = inst
NoJump(prog) == \A j \in 1..Len(prog) : prog[j].op # "Jump"
\* The declarations of the scopes open after the first k instructions of a
\* program without Jump, outermost first.
RECURSIVE OpenScopes(_, _)
OpenScopes(prog, k) ==
    IF k = 0 THEN <<>>
    ELSE LET below == OpenScopes(prog, k - 1)
         IN  IF prog[k].op = "PushScope" THEN Append(below, prog[k].Declarations)
             ELSE IF prog[k].op = "PopScope" /\ Len(below) > 0
                  THEN SubSeq(below, 1, Len(below) - 1)
             ELSE below
\* The innermost open scope that declares the name, 0 if none does.
DeclaringScope(scopes, name) ==
    LET hits == {j \in 1..Len(scopes) : name \in DOMAIN scopes[j]}
    IN  IF hits = {} THEN 0 ELSE Max(hits)
\* C13: an Ident step on a name whose innermost declaration is in a PushScope
\* of two or more names with distinct ids stores the EvalState value of the
\* name's own declared id, as that slot is when the Ident steps.
C13_ScopeNameReadsOwnId ==
    \A it \in Its :
        LET step == last[it]
        IN  (step.inst.op = "Ident" /\ NoJump(program[it]))
            => LET scopes == OpenScopes(program[it], PosOf(program[it], step.inst) - 1)
                   at == DeclaringScope(scopes, step.inst.Name)
               IN  (/\ at > 0
                    /\ Cardinality(DOMAIN scopes[at]) >= 2
                    /\ \A n, m \in DOMAIN scopes[at] :
                          n # m => scopes[at][n] # scopes[at][m])
                   => state[it][step.inst.Id] =
                         value(step.pre, scopes[at][step.inst.Name])

\* Every prefix of the first k instructions has at least as many PushScope
\* as PopScope.
ScopeCount(prog, k, op) == Cardinality({j \in 1..k : prog[j].op = op})
BalancedUpTo(prog, k) ==
    \A j \in 0..k : ScopeCount(prog, j, "PushScope") >= ScopeCount(prog, j, "PopScope")
\* The frame a PushScope of one declaration builds.
ScopeFrame(decls) == NewActivation([n \in DOMAIN decls |-> Thunk(decls[n])])
\* C14: while every prefix of the steps taken has at least as many PushScope
\* as PopScope, the current Activation is the caller's frame, unmodified,
\* under one frame per open scope (so its depth is pushes minus pops), each
\* frame binds exactly the names its PushScope declared, and frames of one
\* declaration are as they were built; so after a PopScope the names of the
\* closed scope resolve no more and the others resolve as before the push.
C14_ScopeStackDiscipline ==
    \A it \in Its :
        (/\ pc[it] \in {"running", "done"}
         /\ NoJump(program[it])
         /\ BalancedUpTo(program[it], cursor[it] - 1))
        => LET scopes == OpenScopes(program[it], cursor[it] - 1)
               pushes == ScopeCount(program[it], cursor[it] - 1, "PushScope")
               pops == ScopeCount(program[it], cursor[it] - 1, "PopScope")
           IN  /\ Len(currActivation[it]) - 1 = pushes - pops
               /\ Len(scopes) = pushes - pops
               /\ currActivation[it][1] = activation[it]
               /\ \A j \in 1..Len(scopes) :
                     /\ DOMAIN currActivation[it][j + 1].bindings = DOMAIN scopes[j]
                     /\ Cardinality(DOMAIN scopes[j]) = 1
                           => currActivation[it][j + 1] = ScopeFrame(scopes[j])
               /\ \A name \in {X, Y} :
                     ResolveName(currActivation[it], name, state[it]).found
                        <=> \/ name \in DOMAIN activation[it].bindings
                            \/ DeclaringScope(scopes, name) > 0
\* The inner of two nested scopes has been popped: its name y resolves no
\* more, the outer scope's x still does.
C14_Witness ==
    \E it \in Its :
        /\ last[it].inst = PopScopeInst(5)
        /\ pc[it] = "running"
        /\ Len(program[it]) = 8
        /\ Len(currActivation[it]) = 2
        /\ Y \notin DOMAIN activation[it].bindings
        /\ ~ResolveName(currActivation[it], Y, state[it]).found
        /\ ResolveName(currActivation[it], X, state[it]).found
        /\ ResolveName(last[it].act, Y, state[it]).found

\* The latest step of an Interpretable was a Jump whose count leads outside
\* the instructions of the program.
JumpsOutside(it) ==
    /\ last[it].inst.op = "Jump"
    /\ (PosOf(program[it], last[it].inst) + last[it].inst.Count)
           \notin 1..Len(program[it])
\* C15: a Jump step whose condition is true and whose count leads outside
\* the instruction range ends the evaluation in a panic, and a panicked
\* evaluation returns nothing; a Jump step whose condition is false never
\* panics, whatever its count, and moves the cursor on by exactly one.
C15_JumpFault ==
    \A it \in Its :
        /\ (JumpsOutside(it) /\ OnCondition(last[it].inst.OnCondition, last[it].pre))
              => pc[it] = "panic"
        /\ pc[it] = "panic" => result[it] = Nil
        /\ (last[it].inst.op = "Jump"
            /\ ~OnCondition(last[it].inst.OnCondition, last[it].pre))
              => /\ pc[it] # "panic"
                 /\ pc[it] = "running"
                        => cursor[it] = PosOf(program[it], last[it].inst) + 1
\* A Jump on a condition that reads the EvalState has panicked.
C15_Witness ==
    \E it \in Its :
        /\ JumpsOutside(it)
        /\ last[it].inst.OnCondition.kind = "isError"
        /\ IsError(last[it].pre[1])
        /\ pc[it] = "panic"

C17_CandidateOrder ==
    \A it \in Its :
        LET step == last[it]
            operand == value(step.pre, step.inst.Operand)
            tp == interpreter.typeProvider
        IN  (step.inst.op = "Select" /\ operand.k = "unknown")
            => IF ResolveReference(step.act, step.inst.Id).found
               THEN /\ state[it][step.inst.Id] = ResolveReference(step.act, step.inst.Id).val
                    /\ step.lookup = <<>>
               ELSE ValidContributors(step.pre, program[it], operand.ids)
                    => LET candidates == ResolveCandidateNames(interpreter.packager, step.lookup)
                           hits == {idx \in 1..Len(candidates) :
                                       NameResolves(step.act, tp, candidates[idx])}
                       IN  hits # {}
                           => LET winner == candidates[Min(hits)]
                              IN  state[it][step.inst.Id] =
                                     IF ChainBinds(step.act, winner)
                                     THEN ResolveName(step.act, winner, step.pre).val
                                     ELSE tp.idents[winner]
\* The outer Select of a.b.c stored the typeProvider's pkg.a.b.c although the
\* Activation binds the later candidate a.b.c.
C17_Witness ==
    \E it \in Its :
        /\ C7Case(it)
        /\ interpreter.packager = Pkg
        /\ (Pkg \o Dot \o ABC) \in DOMAIN interpreter.typeProvider.idents
        /\ ChainBinds(last[it].act, ABC)
        /\ ~ChainBinds(last[it].act, Pkg \o Dot \o ABC)
        /\ last[it].lookup = ABC
        /\ state[it][3] = IntV(4)

\* C18: an Ident, Select, Call, CreateList, CreateMap or CreateObject step
\* changes no EvalState slot but that of its own id; a Mov step changes none
\* but that of its target id; a Jump, PushScope or PopScope step changes
\* none.
C18_StepWritesOwnSlot ==
    \A it \in Its :
        LET step == last[it]
        IN  /\ step.inst.op \in {"Ident", "Select", "Call", "CreateList", "CreateMap",
                                 "CreateObject"}
                  => Changed(it) \subseteq {step.inst.Id}
            /\ step.inst.op = "Mov" => Changed(it) \subseteq {step.inst.ToExprId}
            /\ step.inst.op \in {"Jump", "PushScope", "PopScope"} => Changed(it) = {}

\* Each range over a map of the program has at most one entry to visit and
\* each Jump goes forward, so that one Eval has one outcome.
SingleOutcome(prog) ==
    \A j \in 1..Len(prog) :
        /\ prog[j].op = "CreateMap" => Cardinality(DOMAIN prog[j].KeyValues) <= 1
        /\ prog[j].op = "CreateObject" => Cardinality(DOMAIN prog[j].FieldValues) <= 1
        /\ prog[j].op = "PushScope" => Cardinality(DOMAIN prog[j].Declarations) <= 1
        /\ prog[j].op = "Jump" => prog[j].Count >= 1
\* The Eval call of an Interpretable has ended as one Eval of its program
\* on a fresh EvalState ends.
AsAlone(it) ==
    LET alone == EvalAlone(program[it], interpreter, activation[it])
    IN  /\ pc[it] = "done" => /\ alone.pc = "done"
                              /\ result[it] = alone.result
        /\ pc[it] = "panic" => alone.pc = "panic"

\* C19: every Eval call on an Interpretable, the second of two in a row
\* too, returns what one Eval of the program on a fresh EvalState returns
\* for the same Activation, dispatcher and resolvers.
C19_EvalIgnoresEarlierCall ==
    \A it \in Its : SingleOutcome(program[it]) => AsAlone(it)

\* C20: of two Interpretables of one Interpreter, built from different
\* programs and evaluated once each with their steps interleaved, each ends
\* with the result and the EvalState a run of its own program alone ends
\* with, and a step changes the EvalState of no Interpretable but its own.
C20_InterpretablesIsolated ==
    /\ [](\A it \in Its :
             SingleOutcome(program[it])
             => /\ AsAlone(it)
                /\ pc[it] \in {"done", "panic"}
                      => state[it] = EvalAlone(program[it], interpreter,
                                               activation[it]).state)
    /\ [][\A it \in Its : state'[it] # state[it] => cursor'[it] # cursor[it]]_vars
\* Two Interpretables of different programs are both in the middle of their
\* Eval calls and both have stored values.
C20_Witness ==
    /\ program[1] # program[2]
    /\ pc[1] = "running" /\ pc[2] = "running"
    /\ cursor[1] = 3 /\ cursor[2] = 3
    /\ Stored(state[1]) # {} /\ Stored(state[2]) # {}
    /\ state[1] # state[2]
====
